---- MODULE Spec2Model ----
(***************************************************************************)
(* Model of the structured-output coercion protocol of gptuapi:            *)
(*   validator.py   extract_json, _find_json_object, validate_json,        *)
(*                  JsonValidationError                                    *)
(*   api_client.py  GptClient._build_json_prompt, chat_completions,        *)
(*                  image_generations                                      *)
(* A text is a sequence of lexemes (strings); a JSON value is a record     *)
(* tagged by its field t; Python's None is the record None.                *)
(***************************************************************************)
EXTENDS Integers, Sequences, FiniteSets, TLC

(***************************************************************************)
(* Bounds of the model.                                                    *)
(***************************************************************************)
\* largest max_retries the caller passes
MaxRetries == 3

\* longest array among the JSON values given to the functions of validator.py
MaxItems == 2

\* longest run of braces and prose put in front of an object
MaxPrefix == 3

(***************************************************************************)
(* Python values.                                                          *)
(***************************************************************************)
None == [t |-> "None"]

(***************************************************************************)
(* Lexemes of a text.                                                      *)
(***************************************************************************)
WS == {" ", "\n"}

\* the lexeme of three backquotes that opens or closes a fenced block
FENCE == "FENCE"

StrToks == {"\"name\"", "\"age\"", "\"Ann\""}

\* the lexeme of a run of opening square brackets that is longer than the
\* interpreter's recursion limit
DEEP == "DEEP"

\* index of the first lexeme at or after i that is not whitespace (Len(s)+1 if none)
RECURSIVE SkipWs(_, _)
SkipWs(s, i) ==
    IF i <= Len(s) /\ s[i] \in WS THEN SkipWs(s, i + 1) ELSE i

\* str.strip()
RECURSIVE RStrip(_)
RStrip(s) ==
    IF Len(s) > 0 /\ s[Len(s)] \in WS THEN RStrip(SubSeq(s, 1, Len(s) - 1)) ELSE s

Strip(s) == RStrip(SubSeq(s, SkipWs(s, 1), Len(s)))

(***************************************************************************)
(* json.loads: a recursive-descent parse.  Each Scan operator returns      *)
(* [ok, val, end]: end is the index of the first lexeme after the value;    *)
(* without ok, exc is the exception raised.                                *)
(***************************************************************************)
Fail == [ok |-> FALSE, val |-> None, end |-> 0, exc |-> "JSONDecodeError"]

\* the scanner's recursion guard: nesting beyond the recursion limit
TooDeep == [ok |-> FALSE, val |-> None, end |-> 0, exc |-> "RecursionError"]

Ok(v, e) == [ok |-> TRUE, val |-> v, end |-> e]

RECURSIVE ScanOnce(_, _)
RECURSIVE ScanArray(_, _, _)
RECURSIVE ScanObject(_, _, _)

\* JSONArray after "[" and whitespace: index j is "]" or starts the elements
ArrayFrom(s, j) ==
    IF j <= Len(s) /\ s[j] = "]" THEN Ok([t |-> "arr", items |-> <<>>], j + 1)
    ELSE ScanArray(s, j, <<>>)

\* JSONObject after "{" and whitespace: index j is "}" or starts the members
ObjectFrom(s, j) ==
    IF j <= Len(s) /\ s[j] = "}" THEN Ok([t |-> "obj", members |-> <<>>], j + 1)
    ELSE ScanObject(s, j, <<>>)

\* json.scanner: the value that starts exactly at index i
ScanOnce(s, i) ==
    IF i > Len(s) THEN Fail
    ELSE IF s[i] = "1" THEN Ok([t |-> "num", v |-> 1], i + 1)
    ELSE IF s[i] = "null" THEN Ok(None, i + 1)
    ELSE IF s[i] = "true" THEN Ok([t |-> "bool", v |-> TRUE], i + 1)
    ELSE IF s[i] = "false" THEN Ok([t |-> "bool", v |-> FALSE], i + 1)
    ELSE IF s[i] \in StrToks THEN Ok([t |-> "str", v |-> s[i]], i + 1)
    ELSE IF s[i] = "[" THEN ArrayFrom(s, SkipWs(s, i + 1))
    ELSE IF s[i] = "{" THEN ObjectFrom(s, SkipWs(s, i + 1))
    ELSE IF s[i] = DEEP THEN TooDeep
    ELSE Fail

\* JSONArray after an element and whitespace: index j is "]" or ","
ArrayNext(s, j, items) ==
    IF j > Len(s) THEN Fail
    ELSE IF s[j] = "]" THEN Ok([t |-> "arr", items |-> items], j + 1)
    ELSE IF s[j] = "," THEN ScanArray(s, SkipWs(s, j + 1), items)
    ELSE Fail

\* JSONArray once the element at hand is scanned with result r
ArrayAfter(s, r, items) ==
    IF ~r.ok THEN r
    ELSE ArrayNext(s, SkipWs(s, r.end), Append(items, r.val))

\* json.decoder.JSONArray: the elements from index i on, items parsed so far
ScanArray(s, i, items) == ArrayAfter(s, ScanOnce(s, i), items)

\* JSONObject after a member and whitespace: index j is "}" or ","
ObjectNext(s, j, members) ==
    IF j > Len(s) THEN Fail
    ELSE IF s[j] = "}" THEN Ok([t |-> "obj", members |-> members], j + 1)
    ELSE IF s[j] = "," THEN ScanObject(s, SkipWs(s, j + 1), members)
    ELSE Fail

\* JSONObject once the value of `key` is scanned with result r; a repeated
\* key keeps its last value
ObjectAfter(s, key, r, members) ==
    IF ~r.ok THEN r
    ELSE ObjectNext(s, SkipWs(s, r.end), (key :> r.val) @@ members)

\* JSONObject after a key and whitespace: index c is ":"
ObjectColon(s, key, c, members) ==
    IF c > Len(s) \/ s[c] # ":" THEN Fail
    ELSE ObjectAfter(s, key, ScanOnce(s, SkipWs(s, c + 1)), members)

\* json.decoder.JSONObject: the members from index i on, members parsed so far
ScanObject(s, i, members) ==
    IF i > Len(s) \/ s[i] \notin StrToks THEN Fail
    ELSE ObjectColon(s, s[i], SkipWs(s, i + 1), members)

\* the end of json.loads: r is the scan of the whole text
LoadsEnd(s, r) ==
    IF ~r.ok THEN [ok |-> FALSE, val |-> None, exc |-> r.exc]
    ELSE IF SkipWs(s, r.end) = Len(s) + 1
    THEN [ok |-> TRUE, val |-> r.val]
    ELSE [ok |-> FALSE, val |-> None, exc |-> "JSONDecodeError"]

\* json.loads(s): [ok, val], or without ok the exception raised
Loads(s) == LoadsEnd(s, ScanOnce(s, SkipWs(s, 1)))

\* "except json.JSONDecodeError" does not catch what r raised
Escapes(r) == ~r.ok /\ r.exc # "JSONDecodeError"

\* a call that ends in the exception exc instead of a return value
Raised(exc) == [t |-> "raised", exc |-> exc]

(***************************************************************************)
(* validator.py: extraction.                                               *)
(***************************************************************************)
\* index of the first FENCE at or after i (0 if none)
RECURSIVE FindFence(_, _)
FindFence(s, i) ==
    IF i > Len(s) THEN 0
    ELSE IF s[i] = FENCE THEN i
    ELSE FindFence(s, i + 1)

\* re.findall(code_block_pattern, text) from index i on: the group of every
\* match, left to right.  After the opening fence the pattern takes an
\* optional "json" tag and all whitespace; the lazy group ends before the
\* next fence, less one newline right before that fence.
RECURSIVE CodeBlocks(_, _)

\* a match whose group starts at g and whose closing fence is at f (0: none)
BlockTo(s, g, f) ==
    IF f = 0 THEN <<>>
    ELSE <<SubSeq(s, g, IF f - 1 >= g /\ s[f - 1] = "\n" THEN f - 2 ELSE f - 1)>>
         \o CodeBlocks(s, f + 1)

\* a match whose group starts at g
BlockFrom(s, g) == BlockTo(s, g, FindFence(s, g))

\* a match whose opening fence is at p (0: none)
BlockAt(s, p) ==
    IF p = 0 THEN <<>>
    ELSE BlockFrom(s, SkipWs(s, IF p + 1 <= Len(s) /\ s[p + 1] = "json"
                                THEN p + 2 ELSE p + 1))

CodeBlocks(s, i) == BlockAt(s, FindFence(s, i))

\* the loop over matches: the first block whose stripped content parses
RECURSIVE FirstParsedBlock(_)

FirstOr(r, blocks) ==
    IF r.ok \/ Escapes(r) THEN r ELSE FirstParsedBlock(Tail(blocks))

FirstParsedBlock(blocks) ==
    IF blocks = <<>> THEN [ok |-> FALSE, val |-> None, exc |-> "JSONDecodeError"]
    ELSE FirstOr(Loads(Strip(Head(blocks))), blocks)

\* the for loop of _find_json_object from index i on; json_start = 0 is None
RECURSIVE BraceScan(_, _, _, _)

\* lines 100-106: r is json.loads of the candidate that ends at index i
Candidate(s, i, depth, r) ==
    IF r.ok THEN r.val
    ELSE IF Escapes(r) THEN Raised(r.exc)
    ELSE BraceScan(s, i + 1, depth, 0)

BraceScan(s, i, depth, json_start) ==
    IF i > Len(s) THEN None
    ELSE IF s[i] = "{" THEN
        BraceScan(s, i + 1, depth + 1, IF depth = 0 THEN i ELSE json_start)
    ELSE IF s[i] = "}" THEN
        IF depth - 1 = 0 /\ json_start # 0
        THEN Candidate(s, i, depth - 1, Loads(SubSeq(s, json_start, i)))
        ELSE BraceScan(s, i + 1, depth - 1, json_start)
    ELSE BraceScan(s, i + 1, depth, json_start)

_find_json_object(text) ==
    IF \A i \in 1..Len(text) : text[i] # "{" THEN None
    ELSE BraceScan(text, 1, 0, 0)

\* ExtractScan with the brace scan tried before the fenced blocks
ExtractScan_BracesFirst(s, block) ==
    IF _find_json_object(s) # None THEN _find_json_object(s)
    ELSE IF block.ok THEN block.val
    ELSE IF Escapes(block) THEN Raised(block.exc)
    ELSE None

\* lines 57-72: the fenced blocks, then the braces
ExtractScan(s, block) ==
    IF block.ok THEN block.val
    ELSE IF Escapes(block) THEN Raised(block.exc)
    ELSE _find_json_object(s)

\* lines 51-55, then the rest: pure is json.loads of the stripped text
ExtractStripped(s, pure) ==
    IF pure.ok THEN pure.val
    ELSE IF Escapes(pure) THEN Raised(pure.exc)
    ELSE ExtractScan(s, FirstParsedBlock(CodeBlocks(s, 1)))

\* the argument is a Python value: a str is [t |-> "str", text |-> lexemes];
\* line 46 returns None for an empty str and for everything that is not a str.
\* The result is the value returned, or Raised(exc) for an exception that
\* the except clauses of lines 54, 64 and 103 do not catch
extract_json(text) ==
    IF text.t # "str" \/ text.text = <<>> THEN None
    ELSE ExtractStripped(Strip(text.text), Loads(Strip(text.text)))

(***************************************************************************)
(* validator.py: validation.  jsonschema is an external library: the model *)
(* evaluates the keywords "type" and "required" of a schema, and the       *)
(* meta-schema's rule that "type" names a JSON type.                       *)
(***************************************************************************)
JsonTypes == {"object", "array", "string", "number", "integer", "null", "boolean"}

\* the schema of test_json_validation.py, as abridged in gptuapi/__init__.py
PersonSchema == [type |-> "object", required |-> <<"\"name\"", "\"age\"">>]

\* a schema the meta-schema rejects
BadSchema == [type |-> "objekt", required |-> <<>>]

\* repr() of a string
PyRepr == ("\"name\"" :> "'name'") @@ ("\"age\"" :> "'age'") @@ ("\"Ann\"" :> "'Ann'")

\* the order in which repr() of a dict lists the keys (the model keeps no
\* insertion order)
KeyOrder == <<"\"name\"", "\"age\"", "\"Ann\"">>

\* repr() of a parsed value
RECURSIVE Repr(_)
RECURSIVE ReprItems(_, _)
RECURSIVE ReprMembers(_, _, _)

ReprItems(items, k) ==
    IF k > Len(items) THEN ""
    ELSE (IF k > 1 THEN ", " ELSE "") \o Repr(items[k]) \o ReprItems(items, k + 1)

ReprMembers(members, k, first) ==
    IF k > Len(KeyOrder) THEN ""
    ELSE IF KeyOrder[k] \in DOMAIN members
    THEN (IF first THEN "" ELSE ", ") \o PyRepr[KeyOrder[k]] \o ": "
         \o Repr(members[KeyOrder[k]]) \o ReprMembers(members, k + 1, FALSE)
    ELSE ReprMembers(members, k + 1, first)

Repr(data) ==
    IF data = None THEN "None"
    ELSE IF data.t = "num" THEN "1"
    ELSE IF data.t = "bool" THEN (IF data.v THEN "True" ELSE "False")
    ELSE IF data.t = "str" THEN PyRepr[data.v]
    ELSE IF data.t = "arr" THEN "[" \o ReprItems(data.items, 1) \o "]"
    ELSE "{" \o ReprMembers(data.members, 1, TRUE) \o "}"

\* the JSON type of a parsed value
TypeOf(data) ==
    IF data = None THEN "null"
    ELSE IF data.t = "obj" THEN "object"
    ELSE IF data.t = "arr" THEN "array"
    ELSE IF data.t = "str" THEN "string"
    ELSE IF data.t = "bool" THEN "boolean"
    ELSE "integer"

TypeMatches(data, type) ==
    \/ TypeOf(data) = type
    \/ TypeOf(data) = "integer" /\ type = "number"

\* the messages of the required properties missing from an object, from the
\* k-th required name on
RECURSIVE MissingRequired(_, _, _)
MissingRequired(data, required, k) ==
    IF k > Len(required) THEN <<>>
    ELSE (IF required[k] \in DOMAIN data.members THEN <<>>
          ELSE <<"root: " \o PyRepr[required[k]] \o " is a required property">>)
         \o MissingRequired(data, required, k + 1)

\* Draft7Validator(schema).iter_errors(data), each rendered "path: message";
\* every error of these keywords is at the root
IterErrors(data, schema) ==
    (IF TypeMatches(data, schema.type) THEN <<>>
     ELSE <<"root: " \o Repr(data) \o " is not of type '" \o schema.type \o "'">>)
    \o (IF TypeOf(data) = "object" THEN MissingRequired(data, schema.required, 1)
        ELSE <<>>)

\* validate_json that takes a malformed schema for one that everything
\* conforms to
validate_json_IgnoresSchemaError(data, schema, installed) ==
    IF ~installed
    THEN [valid |-> TRUE,
          errors |-> <<"Warning: jsonschema not installed, validation skipped">>]
    ELSE IF schema.type \notin JsonTypes
    THEN [valid |-> TRUE, errors |-> <<>>]
    ELSE IF IterErrors(data, schema) = <<>>
    THEN [valid |-> TRUE, errors |-> <<>>]
    ELSE [valid |-> FALSE, errors |-> IterErrors(data, schema)]

\* validate_json that says nothing when it skips the validation
validate_json_SilentSkip(data, schema, installed) ==
    IF ~installed
    THEN [valid |-> TRUE, errors |-> <<>>]
    ELSE IF schema.type \notin JsonTypes
    THEN [valid |-> FALSE,
          errors |-> <<"Invalid schema: '" \o schema.type
                         \o "' is not valid under any of the given schemas">>]
    ELSE IF IterErrors(data, schema) = <<>>
    THEN [valid |-> TRUE, errors |-> <<>>]
    ELSE [valid |-> FALSE, errors |-> IterErrors(data, schema)]

\* validate_json(data, schema) -> (is_valid, errors); installed = FALSE is
\* the ImportError branch
validate_json(data, schema, installed) ==
    IF ~installed
    THEN [valid |-> TRUE,
          errors |-> <<"Warning: jsonschema not installed, validation skipped">>]
    ELSE IF schema.type \notin JsonTypes
    THEN [valid |-> FALSE,
          errors |-> <<"Invalid schema: '" \o schema.type
                         \o "' is not valid under any of the given schemas">>]
    ELSE IF IterErrors(data, schema) = <<>>
    THEN [valid |-> TRUE, errors |-> <<>>]
    ELSE [valid |-> FALSE, errors |-> IterErrors(data, schema)]

\* JsonValidationError(message, errors, attempts), as raised to the caller
JsonValidationError(message, errors, attempts) ==
    [kind |-> "raised", exc |-> "JsonValidationError",
     message |-> message, errors |-> errors, attempts |-> attempts]

(***************************************************************************)
(* api_client.py: prompt building.  A prompt text is the sequence of its   *)
(* lines ("\n".join(parts)).                                               *)
(***************************************************************************)
\* a Python list passed where None is also allowed
PyList(l) == [t |-> "list", items |-> l]

\* the lines of the required names from the k-th on, as json.dumps indents them
RECURSIVE DumpsItems(_, _)
DumpsItems(required, k) ==
    IF k > Len(required) THEN <<>>
    ELSE <<"    " \o required[k] \o (IF k < Len(required) THEN "," ELSE "")>>
         \o DumpsItems(required, k + 1)

\* json.dumps(schema, indent=2), line by line
Dumps(schema) ==
    <<"{", "  \"type\": \"" \o schema.type \o "\",">>
    \o (IF schema.required = <<>> THEN <<"  \"required\": []">>
        ELSE <<"  \"required\": [">> \o DumpsItems(schema.required, 1) \o <<"  ]">>)
    \o <<"}">>

\* the bullet lines of the error list, in order
Bullets(errors) == [k \in 1..Len(errors) |-> "- " \o errors[k]]

\* GptClient._build_json_prompt(prompt, schema, errors); errors is None or
\* PyList(list), and "if errors" is false for None and for the empty list
_build_json_prompt(prompt, schema, errors) ==
    (IF errors # None /\ errors.items # <<>>
     THEN <<"Your previous response had validation errors:">>
          \o Bullets(errors.items)
          \o <<"", "Please fix and respond again.", "">>
     ELSE <<>>)
    \o <<prompt, "", "Respond ONLY with valid JSON matching this schema:">>
    \o Dumps(schema)

(***************************************************************************)
(* Values of the model: what the caller passes and what the backend sends. *)
(***************************************************************************)
\* a continuation token (chat_url)
Url(n) == [t |-> "url", id |-> n]

\* an article given as one string, and one given as a list of lines
Str(text) == [t |-> "str", text |-> text]

Lines(items) == [t |-> "list", items |-> items]

PersonText == <<"{", "\"name\"", ":", "\"Ann\"", ",", " ", "\"age\"", ":", "1", "}">>

\* the values the backend sends under "articles": no article; prose; the
\* JSON null; a fenced block, given line by line, of an object that conforms
\* to PersonSchema; prose around an object that lacks both required names;
\* an array nested beyond the recursion limit
ArticleLists ==
    { <<>>,
      <<Str(<<"hi">>)>>,
      <<Str(<<"null">>)>>,
      <<Lines(<<<<"hi">>, <<FENCE, "json">>, PersonText, <<FENCE>>>>)>>,
      <<Str(<<"hi", " ", "{", "}", " ", "hi">>)>>,
      <<Str(<<DEEP>>)>> }

\* values under "articles" with two articles: an object that lacks both
\* required names, then one that conforms; prose, then an object that
\* conforms; an object that conforms, then one that does not; prose, then the
\* array nested beyond the recursion limit; that array, then an object that
\* conforms
ManyArticleLists ==
    { <<Str(<<"hi", " ", "{", "}", " ", "hi">>), Str(PersonText)>>,
      <<Str(<<"hi">>), Str(PersonText)>>,
      <<Lines(<<<<"hi">>, <<FENCE, "json">>, PersonText, <<FENCE>>>>),
        Str(<<"hi", " ", "{", "}", " ", "hi">>)>>,
      <<Str(<<"hi">>), Str(<<DEEP>>)>>,
      <<Str(<<DEEP>>), Str(PersonText)>> }

\* the values the backend sends under "images"
ImageLists == { <<>>, <<"img1", "img2">> }

\* the prompt lists a caller passes
PromptLists == { <<>>, <<"p1", "p2">> }

\* the dict with the one key `key`
Dict1(key, value) == [k \in {key} |-> value]

\* the values of "chat_url" in the response to the n-th transport call: null,
\* or a token the backend has not sent before
TokensOfCall(n) == {None, Url(n)}

\* the response bodies (dicts) the backend sends to the n-th transport call:
\* the list under `list_key` and "chat_url" are each present or not
ResponsesTo(list_key, lists, n) ==
    {<<>>}
    \cup {Dict1("chat_url", u) : u \in TokensOfCall(n)}
    \cup {Dict1(list_key, l) : l \in lists}
    \cup {Dict1(list_key, l) @@ Dict1("chat_url", u) : l \in lists, u \in TokensOfCall(n)}

\* dict.get(key, default)
Get(dict, key, default) == IF key \in DOMAIN dict THEN dict[key] ELSE default

\* "\n".join(items)
RECURSIVE JoinLines(_)
JoinLines(items) ==
    IF items = <<>> THEN <<>>
    ELSE IF Len(items) = 1 THEN items[1]
    ELSE items[1] \o <<"\n">> \o JoinLines(Tail(items))

\* the text of an article, lines 152-156: a str
TextOf(article) ==
    Str(IF article.t = "list" THEN JoinLines(article.items) ELSE article.text)

(***************************************************************************)
(* api_client.py: the pieces of chat_completions and image_generations.    *)
(***************************************************************************)
\* Payload with the token sent even when there is none
Payload_AlwaysToken(prompt_list, url) == [prompts |-> prompt_list, chat_url |-> url]

\* lines 117-119, 136-138, 185-187: the payload of a request
Payload(prompt_list, url) ==
    IF url # None THEN [prompts |-> prompt_list, chat_url |-> url]
    ELSE [prompts |-> prompt_list]

\* line 124
OriginalPrompt(prompt_list) == IF prompt_list # <<>> THEN prompt_list[1] ELSE ""

\* line 133: the errors argument of _build_json_prompt
ErrorsArg(i, errors) == IF i > 0 THEN PyList(errors) ELSE None

\* AttemptRequest with the caller's later prompts sent along after the
\* augmented one
AttemptRequest_AllPrompts(prompt_list, schema, i, errors, url) ==
    [endpoint |-> "/uia/chat/completions",
     payload |-> Payload(<<_build_json_prompt(OriginalPrompt(prompt_list), schema,
                                              ErrorsArg(i, errors))>>
                           \o (IF prompt_list # <<>> THEN Tail(prompt_list) ELSE <<>>),
                         url)]

\* lines 130-138: the request of attempt i
AttemptRequest(prompt_list, schema, i, errors, url) ==
    [endpoint |-> "/uia/chat/completions",
     payload |-> Payload(<<_build_json_prompt(OriginalPrompt(prompt_list), schema,
                                              ErrorsArg(i, errors))>>, url)]

\* lines 144-145
NextChatUrl(response, current) ==
    IF "chat_url" \in DOMAIN response THEN response["chat_url"] ELSE current

\* Evaluate without the return of line 163: a valid value is carried on like
\* a failure
Evaluate_NoReturn(response, schema, installed) ==
    IF Get(response, "articles", <<>>) # <<>>
    THEN IF extract_json(TextOf(Get(response, "articles", <<>>)[1])) # None
         THEN [success |-> FALSE, value |-> None,
               errors |-> validate_json(
                              extract_json(TextOf(Get(response, "articles", <<>>)[1])),
                              schema, installed).errors]
         ELSE [success |-> FALSE, value |-> None,
               errors |-> <<"Could not extract valid JSON from response">>]
    ELSE [success |-> FALSE, value |-> None, errors |-> <<"No response received">>]

\* Evaluate without the test of line 159: whatever extract_json returns is
\* validated
Evaluate_NoNoneTest(response, schema, installed) ==
    IF Get(response, "articles", <<>>) # <<>>
    THEN IF validate_json(extract_json(TextOf(Get(response, "articles", <<>>)[1])),
                          schema, installed).valid
         THEN [success |-> TRUE,
               value |-> extract_json(TextOf(Get(response, "articles", <<>>)[1])),
               errors |-> <<>>]
         ELSE [success |-> FALSE, value |-> None,
               errors |-> validate_json(
                              extract_json(TextOf(Get(response, "articles", <<>>)[1])),
                              schema, installed).errors]
    ELSE [success |-> FALSE, value |-> None, errors |-> <<"No response received">>]

\* Evaluate with the messages of lines 167 and 169 exchanged
Evaluate_SwappedMessages(response, schema, installed) ==
    IF Get(response, "articles", <<>>) # <<>>
    THEN IF extract_json(TextOf(Get(response, "articles", <<>>)[1])) # None
         THEN IF validate_json(extract_json(TextOf(Get(response, "articles", <<>>)[1])),
                               schema, installed).valid
              THEN [success |-> TRUE,
                    value |-> extract_json(TextOf(Get(response, "articles", <<>>)[1])),
                    errors |-> <<>>]
              ELSE [success |-> FALSE, value |-> None,
                    errors |-> validate_json(
                                   extract_json(TextOf(Get(response, "articles", <<>>)[1])),
                                   schema, installed).errors]
         ELSE [success |-> FALSE, value |-> None, errors |-> <<"No response received">>]
    ELSE [success |-> FALSE, value |-> None,
          errors |-> <<"Could not extract valid JSON from response">>]

\* lines 141, 148-169: what one attempt makes of its response: success with
\* the extracted value, or the error list to carry.  Validated: lines
\* 161-165; Extracted: lines 159-167; Articles: lines 148-169.
Validated(extracted, v) ==
    IF v.valid
    THEN [success |-> TRUE, value |-> extracted, errors |-> <<>>]
    ELSE [success |-> FALSE, value |-> None, errors |-> v.errors]

Extracted(extracted, schema, installed) ==
    IF extracted # None
    THEN Validated(extracted, validate_json(extracted, schema, installed))
    ELSE [success |-> FALSE, value |-> None,
          errors |-> <<"Could not extract valid JSON from response">>]

\* Articles that takes the first article, of all in the list, whose value
\* passes validation
Articles_AnyArticle(articles, schema, installed) ==
    LET passing == {j \in 1..Len(articles) :
                      Extracted(extract_json(TextOf(articles[j])), schema,
                                installed).success}
    IN IF passing # {}
       THEN Extracted(extract_json(TextOf(
                articles[CHOOSE j \in passing : \A i \in passing : j <= i])),
                      schema, installed)
       ELSE IF articles # <<>>
       THEN Extracted(extract_json(TextOf(articles[1])), schema, installed)
       ELSE [success |-> FALSE, value |-> None,
             errors |-> <<"No response received">>]

Articles(articles, schema, installed) ==
    IF articles # <<>>
    THEN Extracted(extract_json(TextOf(articles[1])), schema, installed)
    ELSE [success |-> FALSE, value |-> None, errors |-> <<"No response received">>]

Evaluate(response, schema, installed) ==
    Articles(Get(response, "articles", <<>>), schema, installed)

\* lines 147-157: what extract_json makes of the first article; None when
\* there is no article
ExtractedOf(articles) ==
    IF articles # <<>> THEN extract_json(TextOf(articles[1])) ELSE None

\* line 141: the articles of the response after the first one, each as the
\* value its text holds; line 149 is the only read of the list, so the loop
\* never looks at them
OthersOf(articles) ==
    IF articles = <<>> THEN <<>>
    ELSE [j \in 1..(Len(articles) - 1) |-> extract_json(TextOf(articles[j + 1]))]

\* line 157 raises: extract_json ended in an exception, and nothing in
\* chat_completions catches it
ExtractionRaises(response) ==
    ExtractedOf(Get(response, "articles", <<>>)).t = "raised"

\* CarryErrors that appends to the list instead of replacing it
CarryErrors_Accumulate(previous, errors) == previous \o errors

\* lines 165, 167, 169: the assignment to last_errors
CarryErrors(previous, errors) == errors

\* HasNextAttempt with one iteration too many
HasNextAttempt_OffByOne(i, retries) == i + 1 <= retries

\* line 128: range(max_retries) has an index after i (i = -1 before the loop)
HasNextAttempt(i, retries) == i + 1 < retries

\* lines 171-179: the outcome once the loop has run out
Exhaust(is_strict, errors, retries) ==
    IF is_strict
    THEN JsonValidationError("Failed to get valid JSON response after "
                               \o ToString(retries) \o " attempts",
                             errors, retries)
    ELSE [kind |-> "returned", value |-> None]

(***************************************************************************)
(* The state: one client, one call of chat_completions or                  *)
(* image_generations on it, and the backend behind the transport.          *)
(***************************************************************************)
VARIABLES
    jsonschema_installed,   \* whether "import jsonschema" succeeds
    pc,                     \* "idle", "waiting" (a transport call is in flight),
                            \* or how the call ended: "Returned" (no schema),
                            \* "Succeeded", "Exhausted", "Failed" (the
                            \* transport call raised), "Raised" (extract_json
                            \* raised)
    op,                     \* "none", "chat" (no schema), "json", "image"
    prompts, chat_url, response_schema, max_retries, strict,   \* the arguments
    attempt, current_chat_url, last_errors,                    \* the locals
    request,                \* the endpoint and payload of the last transport call
    outcome,                \* what the caller gets: a value returned or an error raised
    calls,                  \* number of transport calls issued
    log,                    \* per attempt whose response arrived, in order:
                            \* what the response held and the error list the
                            \* attempt produced (see Observed)
    last_response,          \* the response body a schema-less call received
    input,                  \* the arguments of a direct call of extract_json or
                            \* validate_json
    result                  \* what that call returned

vars == <<jsonschema_installed, pc, op, prompts, chat_url, response_schema,
          max_retries, strict, attempt, current_chat_url, last_errors,
          request, outcome, calls, log, last_response, input, result>>

\* the variables of a direct call of a function of validator.py
direct == <<input, result>>

args == <<prompts, chat_url, response_schema, max_retries, strict>>

\* what the caller passes
CallerUrls == {None, Url(0)}

Schemas == {PersonSchema, BadSchema}

\* range(max_retries) is empty for every max_retries <= 0
RetryValues == -1..MaxRetries

NoRequest == [endpoint |-> "none"]

NoOutcome == [kind |-> "none"]

\* marks a response without the key "chat_url" in the log
Absent == [t |-> "absent"]

\* the log entry of an attempt: whether the response had an article, what
\* extract_json makes of the first one, what the response held after the
\* first one, the response's "chat_url", and the error list the attempt
\* produced
Observed(r, errors) ==
    LET articles == Get(r, "articles", <<>>) IN
    [has_content |-> articles # <<>>,
     extracted |-> ExtractedOf(articles),
     others |-> OthersOf(articles),
     token |-> Get(r, "chat_url", Absent),
     errors |-> errors]

\* GptClient(api_base_url): no call yet; the signature's defaults stand in
\* for the arguments
Init ==
    /\ jsonschema_installed \in BOOLEAN
    /\ pc = "idle"
    /\ op = "none"
    /\ prompts = <<>>
    /\ chat_url = None
    /\ response_schema = None
    /\ max_retries = 3
    /\ strict = TRUE
    /\ attempt = 0
    /\ current_chat_url = None
    /\ last_errors = <<>>
    /\ request = NoRequest
    /\ outcome = NoOutcome
    /\ calls = 0
    /\ log = <<>>
    /\ last_response = <<>>
    /\ input = None
    /\ result = None

\* chat_completions without response_schema, up to the transport call
\* (lines 116-120)
ChatCompletionsPlain(p, u, n, st) ==
    /\ pc = "idle"
    /\ prompts' = p /\ chat_url' = u /\ response_schema' = None
    /\ max_retries' = n /\ strict' = st
    /\ op' = "chat"
    /\ request' = [endpoint |-> "/uia/chat/completions", payload |-> Payload(p, u)]
    /\ calls' = calls + 1
    /\ pc' = "waiting"
    /\ UNCHANGED <<jsonschema_installed, attempt, current_chat_url, last_errors,
                   outcome, log, last_response>>
    /\ UNCHANGED direct

\* image_generations up to the transport call (lines 185-188)
ImageGenerations(p, u) ==
    /\ pc = "idle"
    /\ prompts' = p /\ chat_url' = u
    /\ op' = "image"
    /\ request' = [endpoint |-> "/uia/images/generations", payload |-> Payload(p, u)]
    /\ calls' = calls + 1
    /\ pc' = "waiting"
    /\ UNCHANGED <<jsonschema_installed, response_schema, max_retries, strict,
                   attempt, current_chat_url, last_errors, outcome, log,
                   last_response>>
    /\ UNCHANGED direct

\* the transport call of a schema-less operation returns (lines 120-121,
\* 188-189)
ReceivePlain(r) ==
    /\ pc = "waiting"
    /\ op \in {"chat", "image"}
    /\ last_response' = r
    /\ outcome' = [kind |-> "returned",
                   value |-> Get(r, IF op = "chat" THEN "articles" ELSE "images", <<>>)]
    /\ pc' = "Returned"
    /\ UNCHANGED <<jsonschema_installed, op, args, attempt, current_chat_url,
                   last_errors, request, calls, log>>
    /\ UNCHANGED direct

\* ChatCompletionsJson with the first two attempts sent together, before any
\* response is in
ChatCompletionsJson_Pipelined(p, u, schema, n, st) ==
    /\ pc = "idle"
    /\ prompts' = p /\ chat_url' = u /\ response_schema' = schema
    /\ max_retries' = n /\ strict' = st
    /\ op' = "json"
    /\ current_chat_url' = u
    /\ last_errors' = <<>>
    /\ IF HasNextAttempt(-1, n)
       THEN /\ attempt' = (IF HasNextAttempt(0, n) THEN 1 ELSE 0)
            /\ request' = AttemptRequest(p, schema, attempt', <<>>, u)
            /\ calls' = calls + attempt' + 1
            /\ pc' = "waiting"
            /\ outcome' = outcome
       ELSE /\ pc' = "Exhausted"
            /\ outcome' = Exhaust(st, <<>>, n)
            /\ UNCHANGED <<attempt, request, calls>>
    /\ UNCHANGED <<jsonschema_installed, log, last_response>>
    /\ UNCHANGED direct

\* chat_completions with a response_schema, up to the first transport call,
\* or to the end when range(max_retries) is empty (lines 124-140, 171-179)
ChatCompletionsJson(p, u, schema, n, st) ==
    /\ pc = "idle"
    /\ prompts' = p /\ chat_url' = u /\ response_schema' = schema
    /\ max_retries' = n /\ strict' = st
    /\ op' = "json"
    /\ current_chat_url' = u
    /\ last_errors' = <<>>
    /\ IF HasNextAttempt(-1, n)
       THEN /\ attempt' = 0
            /\ request' = AttemptRequest(p, schema, 0, <<>>, u)
            /\ calls' = calls + 1
            /\ pc' = "waiting"
            /\ outcome' = outcome
       ELSE /\ pc' = "Exhausted"
            /\ outcome' = Exhaust(st, <<>>, n)
            /\ UNCHANGED <<attempt, request, calls>>
    /\ UNCHANGED <<jsonschema_installed, log, last_response>>
    /\ UNCHANGED direct

\* the transport call of attempt `attempt` returns r: the rest of this loop
\* iteration, then the next iteration up to its transport call, or the end of
\* the call (lines 140-179)
ReceiveJson(r) ==
    /\ pc = "waiting"
    /\ op = "json"
    /\ current_chat_url' = NextChatUrl(r, current_chat_url)
    /\ IF ExtractionRaises(r)
       THEN /\ log' = Append(log, Observed(r, <<>>))
            /\ pc' = "Raised"
            /\ outcome' = [kind |-> "raised",
                           exc |-> ExtractedOf(Get(r, "articles", <<>>)).exc]
            /\ UNCHANGED <<attempt, last_errors, request, calls>>
       ELSE
       LET e == Evaluate(r, response_schema, jsonschema_installed)
           errors == CarryErrors(last_errors, e.errors) IN
       /\ log' = Append(log, Observed(r, e.errors))
       /\ IF e.success
          THEN /\ pc' = "Succeeded"
               /\ outcome' = [kind |-> "returned", value |-> e.value]
               /\ UNCHANGED <<attempt, last_errors, request, calls>>
          ELSE /\ last_errors' = errors
               /\ IF HasNextAttempt(attempt, max_retries)
                  THEN /\ attempt' = attempt + 1
                       /\ request' = AttemptRequest(prompts, response_schema,
                                                    attempt + 1, errors,
                                                    NextChatUrl(r, current_chat_url))
                       /\ calls' = calls + 1
                       /\ pc' = "waiting"
                       /\ outcome' = outcome
                  ELSE /\ pc' = "Exhausted"
                       /\ outcome' = Exhaust(strict, errors, max_retries)
                       /\ UNCHANGED <<attempt, request, calls>>
    /\ UNCHANGED <<jsonschema_installed, op, args, last_response>>
    /\ UNCHANGED direct

\* the transport call raises (_post_json, lines 60-63): urlopen raises
\* URLError (HTTPError, for a non-success status, is one), json.loads raises
\* JSONDecodeError; nothing in chat_completions or image_generations catches it
TransportErrors == {"URLError", "JSONDecodeError"}

\* TransportFails with the failure handled inside the loop: it takes the
\* attempt's slot and the loop goes on
TransportFails_ConsumesRetry(exc) ==
    /\ pc = "waiting"
    /\ IF op = "json" /\ HasNextAttempt(attempt, max_retries)
       THEN /\ attempt' = attempt + 1
            /\ last_errors' = <<exc>>
            /\ request' = AttemptRequest(prompts, response_schema, attempt + 1,
                                         <<exc>>, current_chat_url)
            /\ calls' = calls + 1
            /\ pc' = "waiting"
            /\ outcome' = outcome
       ELSE /\ pc' = "Failed"
            /\ outcome' = [kind |-> "raised", exc |-> exc]
            /\ UNCHANGED <<attempt, last_errors, request, calls>>
    /\ UNCHANGED <<jsonschema_installed, op, args, current_chat_url, log,
                   last_response>>
    /\ UNCHANGED direct

TransportFails(exc) ==
    /\ pc = "waiting"
    /\ outcome' = [kind |-> "raised", exc |-> exc]
    /\ pc' = "Failed"
    /\ UNCHANGED <<jsonschema_installed, op, args, attempt, current_chat_url,
                   last_errors, request, calls, log, last_response>>
    /\ UNCHANGED direct

Next ==
    \/ \E p \in PromptLists, u \in CallerUrls, n \in RetryValues, st \in BOOLEAN :
         ChatCompletionsPlain(p, u, n, st)
    \/ \E p \in PromptLists, u \in CallerUrls : ImageGenerations(p, u)
    \/ \E r \in ResponsesTo(IF op = "image" THEN "images" ELSE "articles",
                            IF op = "image" THEN ImageLists ELSE ArticleLists,
                            calls) :
         ReceivePlain(r)
    \/ \E p \in PromptLists, u \in CallerUrls, schema \in Schemas,
          n \in RetryValues, st \in BOOLEAN :
         ChatCompletionsJson(p, u, schema, n, st)
    \/ \E r \in ResponsesTo("articles", ArticleLists, calls) : ReceiveJson(r)
    \/ \E exc \in TransportErrors : TransportFails(exc)

Spec == Init /\ [][Next]_vars

(***************************************************************************)
(* One JSON-mode call on a backend whose responses hold two articles.      *)
(***************************************************************************)
NextManyArticles ==
    \/ \E p \in PromptLists, u \in CallerUrls, schema \in Schemas,
          n \in RetryValues, st \in BOOLEAN :
         ChatCompletionsJson(p, u, schema, n, st)
    \/ \E l \in ManyArticleLists : ReceiveJson(Dict1("articles", l))
    \/ \E exc \in TransportErrors : TransportFails(exc)

SpecManyArticles == Init /\ [][NextManyArticles]_vars

(***************************************************************************)
(* Two JSON-mode calls of chat_completions on one client, on two threads.  *)
(* Every variable of a call is a function of the call; a thread can be     *)
(* switched out at the transport call and at the head of the loop.         *)
(***************************************************************************)
Calls == {1, 2}

\* Frame with the locals kept on the client object, one copy for all calls
Frame_OnClient(c) == 1

\* lines 124-126, 145, 165-169: original_prompt, current_chat_url and
\* last_errors are local names of chat_completions, so each call has its own
\* in its own frame; __init__ (lines 49-50) puts only api_base_url on self
Frame(c) == c

\* what the two callers pass
PromptsOfCall(c) == IF c = 1 THEN <<"p1", "p2">> ELSE <<"p2">>

CallerUrlsOfCall(c) == {None, Url(10 * c)}

\* what the backend sends to the transport call of attempt i of call c: an
\* empty body; prose around an object that lacks both required names, with a
\* new token; a fenced block of a conforming object
ResponsesToCall(c, i) ==
    { <<>>,
      Dict1("articles", <<Str(<<"hi", " ", "{", "}", " ", "hi">>)>>)
          @@ Dict1("chat_url", Url(10 * c + i + 1)),
      Dict1("articles",
            <<Lines(<<<<"hi">>, <<FENCE, "json">>, PersonText, <<FENCE>>>>)>>) }

InitTwoCalls ==
    /\ jsonschema_installed = TRUE
    /\ op = "json"
    /\ pc = [c \in Calls |-> "idle"]
    /\ prompts = [c \in Calls |-> <<>>]
    /\ chat_url = [c \in Calls |-> None]
    /\ response_schema = [c \in Calls |-> None]
    /\ max_retries = [c \in Calls |-> 3]
    /\ strict = [c \in Calls |-> TRUE]
    /\ attempt = [c \in Calls |-> -1]
    /\ current_chat_url = [c \in Calls |-> None]
    /\ last_errors = [c \in Calls |-> <<>>]
    /\ request = [c \in Calls |-> NoRequest]
    /\ outcome = [c \in Calls |-> NoOutcome]
    /\ calls = [c \in Calls |-> 0]
    /\ log = [c \in Calls |-> <<>>]
    /\ last_response = <<>>
    /\ input = None
    /\ result = None

\* call c enters chat_completions with a response_schema: lines 124-126
EnterJson(c, u, st) ==
    /\ pc[c] = "idle"
    /\ prompts' = [prompts EXCEPT ![c] = PromptsOfCall(c)]
    /\ chat_url' = [chat_url EXCEPT ![c] = u]
    /\ response_schema' = [response_schema EXCEPT ![c] = PersonSchema]
    /\ max_retries' = [max_retries EXCEPT ![c] = MaxRetries]
    /\ strict' = [strict EXCEPT ![c] = st]
    /\ current_chat_url' = [current_chat_url EXCEPT ![Frame(c)] = u]
    /\ last_errors' = [last_errors EXCEPT ![Frame(c)] = <<>>]
    /\ pc' = [pc EXCEPT ![c] = "loop"]
    /\ UNCHANGED <<jsonschema_installed, op, attempt, request, outcome, calls,
                   log, last_response>>
    /\ UNCHANGED direct

\* call c at the head of the loop: the next iteration up to its transport
\* call (lines 128-140), or the end of the call (lines 171-179)
IterateJson(c) ==
    /\ pc[c] = "loop"
    /\ IF HasNextAttempt(attempt[c], max_retries[c])
       THEN /\ attempt' = [attempt EXCEPT ![c] = @ + 1]
            /\ request' = [request EXCEPT ![c] =
                              AttemptRequest(prompts[c], response_schema[c],
                                             attempt[c] + 1,
                                             last_errors[Frame(c)],
                                             current_chat_url[Frame(c)])]
            /\ calls' = [calls EXCEPT ![c] = @ + 1]
            /\ pc' = [pc EXCEPT ![c] = "waiting"]
            /\ outcome' = outcome
       ELSE /\ pc' = [pc EXCEPT ![c] = "Exhausted"]
            /\ outcome' = [outcome EXCEPT ![c] =
                              Exhaust(strict[c], last_errors[Frame(c)],
                                      max_retries[c])]
            /\ UNCHANGED <<attempt, request, calls>>
    /\ UNCHANGED <<jsonschema_installed, op, args, current_chat_url,
                   last_errors, log, last_response>>
    /\ UNCHANGED direct

\* the transport call of call c returns r: the rest of the iteration (lines
\* 140-169)
ReceiveJsonOf(c, r) ==
    /\ pc[c] = "waiting"
    /\ current_chat_url' = [current_chat_url EXCEPT ![Frame(c)] =
                              NextChatUrl(r, current_chat_url[Frame(c)])]
    /\ IF ExtractionRaises(r)
       THEN /\ log' = [log EXCEPT ![c] = Append(@, Observed(r, <<>>))]
            /\ pc' = [pc EXCEPT ![c] = "Raised"]
            /\ outcome' = [outcome EXCEPT ![c] =
                              [kind |-> "raised",
                               exc |-> ExtractedOf(Get(r, "articles", <<>>)).exc]]
            /\ UNCHANGED last_errors
       ELSE
       LET e == Evaluate(r, response_schema[c], jsonschema_installed) IN
       /\ log' = [log EXCEPT ![c] = Append(@, Observed(r, e.errors))]
       /\ IF e.success
          THEN /\ pc' = [pc EXCEPT ![c] = "Succeeded"]
               /\ outcome' = [outcome EXCEPT ![c] =
                                 [kind |-> "returned", value |-> e.value]]
               /\ UNCHANGED last_errors
          ELSE /\ last_errors' = [last_errors EXCEPT ![Frame(c)] =
                                     CarryErrors(@, e.errors)]
               /\ pc' = [pc EXCEPT ![c] = "loop"]
               /\ outcome' = outcome
    /\ UNCHANGED <<jsonschema_installed, op, args, attempt, request, calls,
                   last_response>>
    /\ UNCHANGED direct

\* the transport call of call c raises
TransportFailsOf(c) ==
    /\ pc[c] = "waiting"
    /\ outcome' = [outcome EXCEPT ![c] = [kind |-> "raised", exc |-> "URLError"]]
    /\ pc' = [pc EXCEPT ![c] = "Failed"]
    /\ UNCHANGED <<jsonschema_installed, op, args, attempt, current_chat_url,
                   last_errors, request, calls, log, last_response>>
    /\ UNCHANGED direct

NextTwoCalls ==
    \/ \E c \in Calls : \E u \in CallerUrlsOfCall(c), st \in BOOLEAN : EnterJson(c, u, st)
    \/ \E c \in Calls : IterateJson(c)
    \/ \E c \in Calls : \E r \in ResponsesToCall(c, attempt[c]) : ReceiveJsonOf(c, r)
    \/ \E c \in Calls : TransportFailsOf(c)

SpecTwoCalls == InitTwoCalls /\ [][NextTwoCalls]_vars

(***************************************************************************)
(* validator.py called directly: one call of extract_json or validate_json *)
(* on an argument drawn from the families below.                           *)
(***************************************************************************)
\* json.dumps(value): the lexemes of the text, with the separators ", " and
\* ": "; the keys of an object in the order of KeyOrder
RECURSIVE Serialize(_)
RECURSIVE SerializeItems(_, _)
RECURSIVE SerializeMembers(_, _, _)

SerializeItems(items, k) ==
    IF k > Len(items) THEN <<>>
    ELSE (IF k > 1 THEN <<",", " ">> ELSE <<>>)
         \o Serialize(items[k]) \o SerializeItems(items, k + 1)

SerializeMembers(members, k, first) ==
    IF k > Len(KeyOrder) THEN <<>>
    ELSE IF KeyOrder[k] \in DOMAIN members
    THEN (IF first THEN <<>> ELSE <<",", " ">>) \o <<KeyOrder[k], ":", " ">>
         \o Serialize(members[KeyOrder[k]])
         \o SerializeMembers(members, k + 1, FALSE)
    ELSE SerializeMembers(members, k + 1, first)

Serialize(value) ==
    IF value = None THEN <<"null">>
    ELSE IF value.t = "num" THEN <<"1">>
    ELSE IF value.t = "bool" THEN <<IF value.v THEN "true" ELSE "false">>
    ELSE IF value.t = "str" THEN <<value.v>>
    ELSE IF value.t = "arr"
    THEN <<"[">> \o SerializeItems(value.items, 1) \o <<"]">>
    ELSE <<"{">> \o SerializeMembers(value.members, 1, TRUE) \o <<"}">>

\* JSON values: null, a number, a string, the booleans; arrays and objects
\* of those; arrays and objects of containers
Atoms ==
    {None, [t |-> "num", v |-> 1], [t |-> "str", v |-> "\"Ann\""],
     [t |-> "bool", v |-> TRUE], [t |-> "bool", v |-> FALSE]}

ArraysOf(values) ==
    {[t |-> "arr", items |-> items] :
        items \in UNION {[1..n -> values] : n \in 0..MaxItems}}

ObjectsOf(values) ==
    {[t |-> "obj", members |-> members] :
        members \in UNION {[keys -> values] : keys \in SUBSET {"\"name\"", "\"age\""}}}

Containers ==
    {[t |-> "arr", items |-> <<>>], [t |-> "obj", members |-> <<>>],
     [t |-> "obj", members |-> ("\"name\"" :> [t |-> "num", v |-> 1])]}

JsonValues ==
    Atoms \cup ArraysOf(Atoms) \cup ObjectsOf(Atoms)
          \cup ArraysOf(Containers) \cup ObjectsOf(Containers)

\* whitespace around a text
Pads == {<<>>, <<"\n", " ">>}

\* prose before and after a fenced block
Proses == {<<>>, <<"hi", " ">>}

\* what follows the opening fence: nothing, the tag json, another tag
Tags == {<<>>, <<"json">>, <<"python">>}

\* fence-open + content + fence-close, content on lines of its own
Fenced(tag, content) == <<FENCE>> \o tag \o <<"\n">> \o content \o <<"\n", FENCE>>

\* the values put in a fenced block
FencedValues ==
    Atoms \cup Containers
          \cup {[t |-> "arr", items |-> <<[t |-> "num", v |-> 1], None>>],
                [t |-> "arr", items |-> <<[t |-> "obj", members |->
                                             ("\"name\"" :> [t |-> "num", v |-> 1])]>>],
                [t |-> "obj", members |-> ("\"name\"" :> [t |-> "str", v |-> "\"Ann\""])
                                           @@ ("\"age\"" :> [t |-> "num", v |-> 1])]}

\* extract_json(serialize(value)), with or without whitespace around the text
PureInputs ==
    {[fn |-> "extract_json", family |-> "pure", value |-> v, pad |-> pad,
      text |-> Str(pad \o Serialize(v) \o pad)] :
        v \in JsonValues, pad \in Pads}

\* extract_json(prefix + fence-open + serialize(value) + fence-close + suffix)
FencedInputs ==
    {[fn |-> "extract_json", family |-> "fenced", value |-> v, tag |-> tag,
      text |-> Str(prefix \o Fenced(tag, Serialize(v)) \o suffix)] :
        v \in FencedValues, tag \in Tags, prefix \in Proses, suffix \in Proses}

\* what a fenced block holds: the serialization of a value, or text that is
\* no JSON
BlockContents ==
    {[parses |-> TRUE, value |-> v, text |-> Serialize(v)] :
        v \in {None, [t |-> "arr", items |-> <<[t |-> "num", v |-> 1]>>],
               [t |-> "obj", members |-> ("\"name\"" :> [t |-> "str", v |-> "\"Ann\""])]}}
    \cup {[parses |-> FALSE, value |-> None, text |-> text] :
             text \in {<<"hi">>, <<"{", "hi", "}">>, <<"[", "1">>}}

\* what stands before the first fenced block: prose, with or without an
\* object in it
Bares ==
    {[has |-> FALSE, value |-> None, text |-> <<"hi", " ">>],
     [has |-> TRUE, value |-> [t |-> "obj", members |-> <<>>],
      text |-> <<"hi", " ", "{", "}", " ">>],
     [has |-> TRUE, value |-> Loads(PersonText).val,
      text |-> <<"hi", " ">> \o PersonText \o <<" ">>]}

\* extract_json(prose + one or two fenced blocks)
BlockInputs ==
    {[fn |-> "extract_json", family |-> "blocks", bare |-> bare,
      contents |-> <<c1>>,
      text |-> Str(bare.text \o Fenced(tag, c1.text))] :
        bare \in Bares, c1 \in BlockContents, tag \in {<<>>, <<"json">>}}
    \cup
    {[fn |-> "extract_json", family |-> "blocks", bare |-> bare,
      contents |-> <<c1, c2>>,
      text |-> Str(bare.text \o Fenced(tag, c1.text) \o <<" ">>
                   \o Fenced(tag, c2.text))] :
        bare \in Bares, c1 \in BlockContents, c2 \in BlockContents,
        tag \in {<<>>, <<"json">>}}

\* extract_json(braces and prose + an object + a closing brace or nothing)
BraceInputs ==
    {[fn |-> "extract_json", family |-> "braces", prefix |-> prefix,
      text |-> Str(prefix \o PersonText \o suffix)] :
        prefix \in UNION {[1..n -> {"{", "}", "hi"}] : n \in 0..MaxPrefix},
        suffix \in {<<>>, <<"}">>}}

\* extract_json of what holds no JSON value: no str, an empty or blank str,
\* prose, JSON cut short, and nesting beyond the recursion limit as the whole
\* text, in a fenced block and in an object
NoValueInputs ==
    {[fn |-> "extract_json", family |-> "none", text |-> text] :
        text \in {None, [t |-> "num", v |-> 1], Lines(<<PersonText>>),
                  Str(<<>>), Str(<<" ", "\n">>), Str(<<"hi">>),
                  Str(<<"{", "hi">>), Str(<<"[", "1", ",">>),
                  Str(<<FENCE, "hi", FENCE>>),
                  Str(<<"hi", " ", "}", "{">>),
                  Str(<<DEEP>>),
                  Str(<<"hi", " ">> \o Fenced(<<"json">>, <<DEEP>>)),
                  Str(<<"hi", " ", "{", "\"name\"", ":", DEEP, "}">>)}}

ExtractInputs ==
    PureInputs \cup FencedInputs \cup BlockInputs \cup BraceInputs
               \cup NoValueInputs

\* validate_json(data, schema)
ValidateInputs ==
    {[fn |-> "validate_json", data |-> data, schema |-> schema] :
        data \in FencedValues, schema \in {PersonSchema, BadSchema}}

\* no call yet
InitValidator ==
    /\ jsonschema_installed \in BOOLEAN
    /\ pc = "idle"
    /\ op = "none"
    /\ prompts = <<>>
    /\ chat_url = None
    /\ response_schema = None
    /\ max_retries = 3
    /\ strict = TRUE
    /\ attempt = 0
    /\ current_chat_url = None
    /\ last_errors = <<>>
    /\ request = NoRequest
    /\ outcome = NoOutcome
    /\ calls = 0
    /\ log = <<>>
    /\ last_response = <<>>
    /\ input \in ExtractInputs \cup ValidateInputs
    /\ result = None

\* extract_json(text), lines 32-72
ExtractJson ==
    /\ pc = "idle"
    /\ input.fn = "extract_json"
    /\ result' = extract_json(input.text)
    /\ pc' = (IF extract_json(input.text).t = "raised" THEN "Raised" ELSE "Returned")
    /\ UNCHANGED <<jsonschema_installed, op, args, attempt, current_chat_url,
                   last_errors, request, outcome, calls, log, last_response,
                   input>>

\* validate_json(data, schema), lines 111-144
ValidateJson ==
    /\ pc = "idle"
    /\ input.fn = "validate_json"
    /\ result' = validate_json(input.data, input.schema, jsonschema_installed)
    /\ pc' = "Returned"
    /\ UNCHANGED <<jsonschema_installed, op, args, attempt, current_chat_url,
                   last_errors, request, outcome, calls, log, last_response,
                   input>>

NextValidator == ExtractJson \/ ValidateJson

SpecValidator == InitValidator /\ [][NextValidator]_vars

(***************************************************************************)
(* Properties.                                                             *)
(***************************************************************************)
Range(seq) == {seq[k] : k \in 1..Len(seq)}

Max(a, b) == IF a >= b THEN a ELSE b

\* the prompt text of the request last sent by a JSON-mode call
SentPrompt == request.payload.prompts[1]

FeedbackHeader == "Your previous response had validation errors:"

\* index of the first empty line of a prompt text at or after k (0 if none)
RECURSIVE FirstBlank(_, _)
FirstBlank(lines, k) ==
    IF k > Len(lines) THEN 0
    ELSE IF lines[k] = "" THEN k
    ELSE FirstBlank(lines, k + 1)

\* the feedback lines of a prompt text: those between the header and the
\* first empty line; none when the text does not start with the header
Feedback(lines) ==
    IF lines # <<>> /\ lines[1] = FeedbackHeader /\ FirstBlank(lines, 2) # 0
    THEN SubSeq(lines, 2, FirstBlank(lines, 2) - 1)
    ELSE <<>>

\* the log entry is of an attempt whose extracted value passes validation
PassesValidation(entry) ==
    /\ entry.extracted # None
    /\ entry.extracted.t # "raised"
    /\ validate_json(entry.extracted, response_schema, jsonschema_installed).valid

LastEntry == log[Len(log)]

\* C1, as claimed: a JSON-mode call that ends in Succeeded or Exhausted has
\* issued at most max_retries transport calls
C1_AtMostMaxRetriesCalls ==
    (op = "json" /\ pc \in {"Succeeded", "Exhausted"}) => calls <= max_retries

\* C1, amended: a JSON-mode call issues at most max(max_retries, 0) transport
\* calls, at every point of the call and so when it ends in Succeeded or
\* Exhausted
C1_AtMostMax0Calls ==
    op = "json" => calls <= Max(max_retries, 0)

\* a call that ran out after all MaxRetries attempts
C1_Witness ==
    op = "json" /\ pc = "Exhausted" /\ max_retries = MaxRetries /\ calls = MaxRetries

\* C2: the first attempt whose response yields an extracted value that passes
\* validation ends the call in Succeeded with exactly that value, and every
\* transport call issued has been answered: success at attempt index i comes
\* after exactly i+1 transport calls
C2_FirstValidAttemptSucceeds ==
    op = "json" =>
        /\ \A k \in 1..Len(log) :
             PassesValidation(log[k]) => k = Len(log) /\ pc = "Succeeded"
        /\ pc = "Succeeded" =>
             /\ log # <<>>
             /\ PassesValidation(LastEntry)
             /\ outcome = [kind |-> "returned", value |-> LastEntry.extracted]
             /\ calls = Len(log)
             /\ calls = attempt + 1

\* success at attempt index 2, after two failed attempts
C2_Witness ==
    op = "json" /\ pc = "Succeeded" /\ attempt = 2 /\ calls = 3

\* C3: the prompt of attempt 0 has no feedback section; the feedback lines
\* of the prompt of attempt i > 0 are the errors attempt i-1 produced, one
\* bullet line each, in order, and no error that only an earlier attempt
\* produced is on any line of the prompt
C3_FeedbackIsPreviousAttemptOnly ==
    (op = "json" /\ pc = "waiting") =>
        IF attempt = 0
        THEN /\ Feedback(SentPrompt) = <<>>
             /\ FeedbackHeader \notin Range(SentPrompt)
        ELSE /\ Len(log) = attempt
             /\ Feedback(SentPrompt)
                  = [k \in 1..Len(log[attempt].errors) |-> "- " \o log[attempt].errors[k]]
             /\ \A j \in 1..(attempt - 1) : \A e \in Range(log[j].errors) :
                  e \notin Range(log[attempt].errors)
                    => ("- " \o e) \notin Range(SentPrompt)

\* the prompt of attempt 2, after attempt 0 had no content and attempt 1
\* produced two validation errors
C3_Witness ==
    /\ op = "json" /\ pc = "waiting" /\ attempt = 2
    /\ log[1].errors = <<"No response received">>
    /\ Len(log[2].errors) = 2

\* the continuation token of the responses in the log: that of the most
\* recent one that held a token, else the caller's
RECURSIVE ActiveToken(_, _)
ActiveToken(entries, supplied) ==
    IF entries = <<>> THEN supplied
    ELSE IF entries[Len(entries)].token \notin {Absent, None}
         THEN entries[Len(entries)].token
         ELSE ActiveToken(SubSeq(entries, 1, Len(entries) - 1), supplied)

\* C4: the request of each attempt carries the token of the most recent
\* response that held one, else the caller's, and omits the token only if
\* there is neither
C4_TokenNeverDropped ==
    (op = "json" /\ pc = "waiting") =>
        IF ActiveToken(log, chat_url) = None
        THEN "chat_url" \notin DOMAIN request.payload
        ELSE /\ "chat_url" \in DOMAIN request.payload
             /\ request.payload["chat_url"] = ActiveToken(log, chat_url)

\* C5: a strict-mode call that ends in Exhausted raises JsonValidationError
\* with a non-empty error list, the one the last attempt produced
C5_ExhaustionCarriesLastErrors ==
    (op = "json" /\ pc = "Exhausted" /\ strict) =>
        /\ outcome.kind = "raised"
        /\ outcome.exc = "JsonValidationError"
        /\ outcome.errors # <<>>
        /\ log # <<>>
        /\ outcome.errors = LastEntry.errors

\* C6: the attempt count of a strict-mode exhaustion failure is the number
\* of transport calls the call made
C6_AttemptsIsCallsMade ==
    (op = "json" /\ pc = "Exhausted" /\ strict) =>
        /\ outcome.kind = "raised"
        /\ outcome.attempts = calls

\* C7: a non-strict call that ends in Exhausted returns None and raises
\* nothing; a call that ends in Succeeded never returns None
C7_NoValueOnlyWhenExhausted ==
    op = "json" =>
        /\ (pc = "Exhausted" /\ ~strict) => outcome = [kind |-> "returned", value |-> None]
        /\ pc = "Succeeded" => outcome.kind = "returned" /\ outcome.value # None

\* a non-strict call that ran out after an attempt whose response had
\* content and no usable JSON
C7_Witness ==
    /\ op = "json" /\ pc = "Exhausted" /\ ~strict /\ calls = 3
    /\ LastEntry.has_content /\ LastEntry.extracted = None

\* the key of the result list of a schema-less operation
ListKey == IF op = "image" THEN "images" ELSE "articles"

\* C8: a schema-less chat_completions or image_generations issues exactly
\* one transport call, to its endpoint, with the caller's prompts and the
\* token only if one was supplied, and returns the response's result list
\* as it is; it makes no attempt, extraction or validation
C8_PassthroughIsOneCall ==
    op \in {"chat", "image"} =>
        /\ pc \in {"waiting", "Returned", "Failed"}
        /\ calls = 1
        /\ request.endpoint = (IF op = "image" THEN "/uia/images/generations"
                               ELSE "/uia/chat/completions")
        /\ request.payload.prompts = prompts
        /\ DOMAIN request.payload
             = (IF chat_url = None THEN {"prompts"} ELSE {"prompts", "chat_url"})
        /\ chat_url # None => request.payload["chat_url"] = chat_url
        /\ log = <<>> /\ last_errors = <<>> /\ current_chat_url = None
        /\ pc = "Returned" =>
             /\ outcome.kind = "returned"
             /\ outcome.value = (IF ListKey \in DOMAIN last_response
                                 THEN last_response[ListKey] ELSE <<>>)

\* a schema-less chat call, with a token, whose response held an article
\* with JSON in it and a new token
C8_Witness ==
    /\ op = "chat" /\ pc = "Returned" /\ chat_url # None
    /\ "chat_url" \in DOMAIN last_response
    /\ Len(outcome.value) = 1
    /\ extract_json(TextOf(outcome.value[1])) \notin {None, [t |-> "obj", members |-> <<>>]}

CouldNotExtract == <<"Could not extract valid JSON from response">>

NoResponse == <<"No response received">>

\* the log entry is of an attempt that got no JSON out of its response
IsMiss(entry) == ~entry.has_content \/ entry.extracted = None

\* C9: an attempt whose response has content and no extractable JSON
\* produces exactly the "could not extract" error, one whose response has no
\* content exactly the "no response" error; that list is then the carried
\* error set, and either the next attempt's request is out with the message
\* as a feedback line, or the attempt was the last and the call is Exhausted
C9_MissMessages ==
    (op = "json" /\ log # <<>>) =>
        /\ \A k \in 1..Len(log) :
             /\ (log[k].has_content /\ log[k].extracted = None)
                  => log[k].errors = CouldNotExtract
             /\ ~log[k].has_content => log[k].errors = NoResponse
        /\ IsMiss(LastEntry) =>
             /\ last_errors = LastEntry.errors
             /\ \/ /\ pc \in {"waiting", "Failed"}
                   /\ attempt = Len(log)
                   /\ attempt < max_retries
                   /\ ("- " \o LastEntry.errors[1]) \in Range(Feedback(SentPrompt))
                \/ /\ pc = "Exhausted"
                   /\ Len(log) = max_retries

\* attempt 2 is out after attempt 0 got no content and attempt 1 got
\* content without JSON
C9_Witness ==
    /\ op = "json" /\ pc = "waiting" /\ attempt = 2
    /\ log[1].errors = NoResponse
    /\ log[2].has_content /\ log[2].errors = CouldNotExtract

\* C10: while attempts remain, a failed attempt only moves the loop on and
\* nothing reaches the caller; a call whose transport calls all succeed ends
\* in a returned value that is not None, in JsonValidationError (strict, no
\* attempt left) or in None (not strict, no attempt left)
C10_FailuresStayInLoop ==
    op = "json" =>
        /\ pc \in {"waiting", "Failed", "Succeeded", "Exhausted"}
        /\ pc = "waiting" => outcome = NoOutcome
        /\ pc = "Failed" => outcome.kind = "raised" /\ outcome.exc \in TransportErrors
        /\ pc = "Succeeded" => outcome.kind = "returned" /\ outcome.value # None
        /\ pc = "Exhausted" =>
             /\ Len(log) >= max_retries
             /\ IF strict
                THEN outcome.kind = "raised" /\ outcome.exc = "JsonValidationError"
                ELSE outcome = [kind |-> "returned", value |-> None]
        /\ (log # <<>> /\ Len(log) < max_retries /\ pc # "Succeeded") =>
             /\ pc \in {"waiting", "Failed"}
             /\ attempt = Len(log)
             /\ last_errors = LastEntry.errors

\* C11: when the transport call of an attempt fails, the call ends there
\* with the transport's exception raised to the caller, not with
\* JsonValidationError and not with a returned value; no transport call is
\* issued for it or after it, and no attempt index is used up
C11_TransportFailureEndsCall ==
    [][/\ (op = "json" /\ pc = "waiting" /\ log' = log) =>
            /\ pc' = "Failed"
            /\ outcome'.kind = "raised"
            /\ outcome'.exc \in TransportErrors
            /\ outcome'.exc # "JsonValidationError"
            /\ calls' = calls /\ attempt' = attempt /\ request' = request
            /\ last_errors' = last_errors
       /\ pc = "Failed" => UNCHANGED vars]_vars

\* a non-strict call whose second transport call failed, with one attempt
\* still left
C11_Witness ==
    /\ op = "json" /\ pc = "Failed" /\ ~strict
    /\ max_retries = MaxRetries /\ attempt = 1 /\ calls = 2 /\ Len(log) = 1
    /\ outcome.kind = "raised"

\* C12: within one JSON-mode call at most one transport call is unanswered
\* at any time, and the transport call of attempt i is issued only when the
\* responses of attempts 0..i-1 have all been received, extracted and
\* validated: it is the (i+1)-th call, and for i > 0 its prompt carries the
\* errors that the evaluation of response i-1 produced
C12_AttemptsAreSequential ==
    [][op' = "json" =>
         /\ calls' - Len(log') \in {0, 1}
         /\ calls' \in {calls, calls + 1}
         /\ calls' = calls + 1 =>
              /\ pc' = "waiting"
              /\ attempt' = calls
              /\ Len(log') = calls
              /\ calls > 0 =>
                   /\ pc = "waiting" /\ attempt = calls - 1
                   /\ log' = Append(log, log'[calls])
                   /\ Feedback(request'.payload.prompts[1])
                        = [k \in 1..Len(log'[calls].errors) |->
                             "- " \o log'[calls].errors[k]]]_vars

\* the request of attempt 2 is out, after the responses of attempts 0 and 1
\* were both evaluated
C12_Witness ==
    /\ op = "json" /\ pc = "waiting" /\ attempt = 2
    /\ calls = 3 /\ Len(log) = 2 /\ last_errors = log[2].errors

\* the errors the last answered attempt of a call produced, from its log
OwnErrors(entries) ==
    IF entries = <<>> THEN <<>> ELSE entries[Len(entries)].errors

\* the token lines 144-145 leave a call with, from its log and its argument
RECURSIVE OwnToken(_, _)
OwnToken(entries, supplied) ==
    IF entries = <<>> THEN supplied
    ELSE IF entries[Len(entries)].token # Absent
         THEN entries[Len(entries)].token
         ELSE OwnToken(SubSeq(entries, 1, Len(entries) - 1), supplied)

\* C13: with two JSON-mode calls interleaved on one client, the request a
\* call has out and the outcome it ends with are those that its own
\* arguments and the responses to its own transport calls determine,
\* whatever the other call has done in between
C13_CallsDoNotInterfere ==
    \A c \in Calls :
        /\ pc[c] = "waiting" =>
             request[c] = AttemptRequest(PromptsOfCall(c), PersonSchema,
                                         Len(log[c]), OwnErrors(log[c]),
                                         OwnToken(log[c], chat_url[c]))
        /\ pc[c] = "Succeeded" =>
             outcome[c] = [kind |-> "returned",
                           value |-> log[c][Len(log[c])].extracted]
        /\ pc[c] = "Exhausted" =>
             outcome[c] = Exhaust(strict[c], OwnErrors(log[c]), MaxRetries)
        /\ pc[c] = "Failed" =>
             outcome[c] = [kind |-> "raised", exc |-> "URLError"]

\* both calls have the request of a later attempt out, call 1 after a
\* response that set a token and errors, call 2 without a token after an
\* empty response that came in after call 1's
C13_Witness ==
    /\ pc[1] = "waiting" /\ pc[2] = "waiting"
    /\ attempt[1] = 1 /\ attempt[2] = 2
    /\ Len(log[1][1].errors) = 2 /\ log[1][1].token = Url(11)
    /\ chat_url[2] = None
    /\ log[2][1].errors = <<"No response received">>
    /\ log[2][2].errors = <<"No response received">>
    /\ "chat_url" \notin DOMAIN request[2].payload

\* C17: extract_json of the serialization of a JSON value returns that
\* value, and what it returns differs from None, the no-value result
C17_RoundTrip ==
    (pc = "Returned" /\ input.fn = "extract_json" /\ input.family = "pure"
       /\ input.pad = <<>>) =>
        /\ result = input.value
        /\ result # None

\* C18: extract_json of a text with the serialization of a JSON value in a
\* fenced block, with any tag or none and any prose around it, returns that
\* value
C18_FencedBlockOfAnyValue ==
    (pc # "idle" /\ input.fn = "extract_json" /\ input.family = "fenced") =>
        /\ pc = "Returned"
        /\ result = input.value

\* index of the first block content that parses (0 if none)
RECURSIVE FirstParsing(_, _)
FirstParsing(contents, k) ==
    IF k > Len(contents) THEN 0
    ELSE IF contents[k].parses THEN k
    ELSE FirstParsing(contents, k + 1)

\* C14: a text that parses as a whole comes back as that value, whatever a
\* scan would find in it; with fenced blocks after prose, the value of the
\* first block that parses comes back, unparseable blocks before it are
\* skipped, and an object in the prose before the blocks comes back only
\* when no block parses
C14_StrategiesInOrder ==
    (pc # "idle" /\ input.fn = "extract_json") =>
        /\ input.family = "pure" => pc = "Returned" /\ result = input.value
        /\ input.family = "blocks" =>
             /\ pc = "Returned"
             /\ result = (IF FirstParsing(input.contents, 1) # 0
                          THEN input.contents[FirstParsing(input.contents, 1)].value
                          ELSE input.bare.value)

\* an object in the prose, then a block that does not parse, then one that
\* does: the value of the second block comes back
C14_Witness ==
    /\ pc = "Returned" /\ input.fn = "extract_json" /\ input.family = "blocks"
    /\ input.bare.has /\ Len(input.contents) = 2
    /\ ~input.contents[1].parses /\ input.contents[2].parses
    /\ result = input.contents[2].value
    /\ result \notin {None, input.bare.value}

\* the parse of the first balanced top-level {...} span of s that parses,
\* None if there is none: a span runs from a brace that opens at depth 0 to
\* the brace that closes it, and a closing brace at depth 0 matches nothing
\* and belongs to no span
RECURSIVE BalancedScan(_, _, _, _)
BalancedScan(s, i, depth, start) ==
    IF i > Len(s) THEN None
    ELSE IF s[i] = "{"
    THEN BalancedScan(s, i + 1, depth + 1, IF depth = 0 THEN i ELSE start)
    ELSE IF s[i] = "}" /\ depth = 1
    THEN (IF Loads(SubSeq(s, start, i)).ok THEN Loads(SubSeq(s, start, i)).val
          ELSE BalancedScan(s, i + 1, 0, 0))
    ELSE IF s[i] = "}" /\ depth > 1 THEN BalancedScan(s, i + 1, depth - 1, start)
    ELSE BalancedScan(s, i + 1, depth, start)

FirstBalancedObject(s) == BalancedScan(s, 1, 0, 0)

\* C15: on a text without fenced blocks that does not parse as a whole, the
\* brace scan returns the parse of the first balanced top-level {...} span
\* that parses, whatever braces stand before it
C15_FirstBalancedSpan ==
    (pc # "idle" /\ input.fn = "extract_json" /\ input.family = "braces") =>
        /\ pc = "Returned"
        /\ result = FirstBalancedObject(input.text.text)

\* C16: extract_json raises for no argument, and returns None for what is
\* no str, for an empty str and for a text that holds no JSON value
C16_NeverRaises ==
    (pc # "idle" /\ input.fn = "extract_json") =>
        /\ pc = "Returned"
        /\ input.family = "none" => result = None

SkippedWarning == "Warning: jsonschema not installed, validation skipped"

\* C19: without jsonschema, validate_json returns valid with exactly one
\* message, the warning that validation was skipped; with jsonschema a valid
\* result has no message, so valid with a message means skipped
C19_SkippedValidationIsTold ==
    (pc = "Returned" /\ input.fn = "validate_json") =>
        /\ ~jsonschema_installed =>
             result = [valid |-> TRUE, errors |-> <<SkippedWarning>>]
        /\ (result.valid /\ result.errors # <<>>) => ~jsonschema_installed

\* without jsonschema, an object that lacks a required name is reported
\* valid with the warning
C19_Witness ==
    /\ pc = "Returned" /\ input.fn = "validate_json"
    /\ ~jsonschema_installed
    /\ input.schema = PersonSchema
    /\ input.data = [t |-> "obj", members |-> ("\"name\"" :> [t |-> "num", v |-> 1])]
    /\ result.valid /\ Len(result.errors) = 1

\* the error list of a schema defect: one message, prefixed "Invalid schema:"
SchemaDefect ==
    <<"Invalid schema: " \o "'objekt' is not valid under any of the given schemas">>

\* the log entry is of an attempt for which extract_json returned a value
HasValue(entry) == entry.extracted # None /\ entry.extracted.t # "raised"

\* the call is over
Ended == pc \in {"Succeeded", "Exhausted", "Failed", "Raised"}

\* C20, as claimed: with a malformed schema every attempt that extracts a
\* value produces the schema defect as its only error, and the call ends in
\* Exhausted, never in Succeeded, after exactly max_retries transport calls
C20_MalformedSchemaExhausts ==
    (op = "json" /\ response_schema = BadSchema) =>
        /\ \A k \in 1..Len(log) : HasValue(log[k]) => log[k].errors = SchemaDefect
        /\ pc # "Succeeded"
        /\ Ended => pc = "Exhausted" /\ calls = max_retries

\* C20, amended: with a malformed schema and jsonschema installed, every
\* attempt that extracts a value produces the schema defect as its only
\* error; that error is carried and fed back like a data violation; the call
\* never ends in Succeeded: it ends in Exhausted after exactly
\* max(max_retries, 0) transport calls, or before that in the exception of a
\* transport call or of extract_json
C20_MalformedSchemaNeverSucceeds ==
    (op = "json" /\ response_schema = BadSchema /\ jsonschema_installed) =>
        /\ \A k \in 1..Len(log) : HasValue(log[k]) => log[k].errors = SchemaDefect
        /\ (log # <<>> /\ HasValue(LastEntry)) =>
             /\ last_errors = SchemaDefect
             /\ pc = "waiting" => Feedback(SentPrompt) = <<"- " \o SchemaDefect[1]>>
             /\ (pc = "Exhausted" /\ strict) => outcome.errors = SchemaDefect
        /\ pc # "Succeeded"
        /\ Ended => pc \in {"Exhausted", "Failed", "Raised"}
        /\ pc = "Exhausted" =>
             /\ calls = Max(max_retries, 0)
             /\ Len(log) = calls
        /\ pc \in {"Failed", "Raised"} => calls <= max_retries

\* a strict call with a malformed schema that ran out after three attempts,
\* each of which extracted a value, the first and the last a value that
\* conforms to PersonSchema
C20_Witness ==
    /\ op = "json" /\ response_schema = BadSchema /\ jsonschema_installed
    /\ pc = "Exhausted" /\ strict /\ calls = MaxRetries /\ Len(log) = MaxRetries
    /\ \A k \in 1..Len(log) : HasValue(log[k])
    /\ validate_json(log[1].extracted, PersonSchema, TRUE).valid
    /\ validate_json(LastEntry.extracted, PersonSchema, TRUE).valid
    /\ outcome.errors = SchemaDefect

\* the values extract_json returns for the first article of a response
ExtractableValues ==
    {v \in {ExtractedOf(articles) : articles \in ArticleLists} :
        v # None /\ v.t # "raised"}

\* what the caller gets from a JSON-mode call that ends in Succeeded with a
\* value that jsonschema checked against `schema`
CheckedOutcomes(schema) ==
    {[kind |-> "returned", value |-> v] :
        v \in {x \in ExtractableValues : validate_json(x, schema, TRUE).valid}}

\* C21: without jsonschema, what the caller gets from a JSON-mode call whose
\* last response held extractable JSON differs from everything a call gets
\* that ends in Succeeded with a value jsonschema checked against the schema
C21_SkippedIsDistinguishable ==
    (op = "json" /\ ~jsonschema_installed /\ Ended
       /\ log # <<>> /\ HasValue(LastEntry)) =>
        outcome \notin CheckedOutcomes(response_schema)

SchemaInstruction == "Respond ONLY with valid JSON matching this schema:"

\* index of the schema instruction line in a prompt text (0 if none)
RECURSIVE InstructionAt(_, _)
InstructionAt(lines, k) ==
    IF k > Len(lines) THEN 0
    ELSE IF lines[k] = SchemaInstruction THEN k
    ELSE InstructionAt(lines, k + 1)

\* the caller's part of a JSON-mode prompt text: the lines that stand before
\* the empty line and the schema instruction, and after the feedback section
\* (which ends with "Please fix and respond again." and an empty line)
CallerPart(lines) ==
    LET k == InstructionAt(lines, 1)
        from == IF lines[1] = FeedbackHeader THEN FirstBlank(lines, 2) + 3 ELSE 1
    IN SubSeq(lines, from, k - 2)

\* C22: every request of a JSON-mode call carries exactly one prompt; the
\* caller's part of its text is the first prompt of the caller's list and
\* nothing else, or the empty string for an empty list; no later prompt of
\* the list is on any line of it; and a call with an empty list issues its
\* transport calls like any other (the first whenever max_retries >= 1)
C22_OnlyFirstPromptSent ==
    op = "json" =>
        /\ calls > 0 =>
             /\ request.endpoint = "/uia/chat/completions"
             /\ Len(request.payload.prompts) = 1
             /\ InstructionAt(SentPrompt, 1) > 2
             /\ CallerPart(SentPrompt)
                  = <<IF prompts = <<>> THEN "" ELSE prompts[1]>>
             /\ \A k \in 2..Len(prompts) : prompts[k] \notin Range(SentPrompt)
        /\ calls > 0 <=> max_retries >= 1
        /\ calls = Len(log) + (IF pc \in {"waiting", "Failed"} THEN 1 ELSE 0)

\* the request of the second attempt of a call with two prompts, with the
\* feedback of the first attempt in front of the first prompt
C22_Witness ==
    /\ op = "json" /\ pc = "waiting" /\ attempt = 1 /\ calls = 2
    /\ prompts = <<"p1", "p2">>
    /\ SentPrompt[1] = FeedbackHeader
    /\ CallerPart(SentPrompt) = <<"p1">>

\* the request of the second attempt of a call with an empty prompt list
C22_WitnessEmptyList ==
    /\ op = "json" /\ pc = "waiting" /\ attempt = 1 /\ calls = 2
    /\ prompts = <<>>
    /\ CallerPart(SentPrompt) = <<"">>

\* the value conforms to the schema of the call, as jsonschema judges it
Conforms(v) ==
    v # None /\ v.t # "raised" /\ validate_json(v, response_schema, TRUE).valid

\* the log entry is of a response with a later article that holds a value
\* that conforms to the schema
LaterConforms(entry) ==
    \E j \in 1..Len(entry.others) : Conforms(entry.others[j])

\* the k-th answered attempt counted as failed: it produced errors, and the
\* call did not end in Succeeded with it
CountedAsFailed(k) ==
    /\ log[k].errors # <<>>
    /\ k = Len(log) => pc \in {"waiting", "Exhausted", "Failed"}
    /\ k = Len(log) => last_errors = log[k].errors

\* C23, as claimed: an attempt whose first article holds no JSON that
\* conforms to the schema counts as failed, whatever the later articles hold
C23_NonConformantFirstFails ==
    op = "json" =>
        \A k \in 1..Len(log) : ~Conforms(log[k].extracted) => CountedAsFailed(k)

\* C23, amended: only the first article is extracted and validated.  An
\* attempt whose first article holds no JSON that passes validate_json (with
\* jsonschema: no JSON that conforms; without it every extracted value
\* passes) counts as failed, whatever the later articles hold; its errors
\* are those of the first article; a value returned is the first article's;
\* when extract_json raises on the first article the call ends in that
\* exception
C23_OnlyFirstArticleCounts ==
    op = "json" =>
        \A k \in 1..Len(log) :
            IF log[k].extracted.t = "raised"
            THEN k = Len(log) /\ pc = "Raised" /\ outcome.exc = log[k].extracted.exc
            ELSE /\ ~PassesValidation(log[k]) =>
                      /\ CountedAsFailed(k)
                      /\ log[k].errors =
                           IF ~log[k].has_content THEN NoResponse
                           ELSE IF log[k].extracted = None THEN CouldNotExtract
                           ELSE validate_json(log[k].extracted, response_schema,
                                              jsonschema_installed).errors
                 /\ PassesValidation(log[k]) =>
                      /\ k = Len(log) /\ pc = "Succeeded"
                      /\ outcome = [kind |-> "returned", value |-> log[k].extracted]
                 /\ jsonschema_installed =>
                      (PassesValidation(log[k]) <=> Conforms(log[k].extracted))

\* a non-strict call that ran out after two attempts, each answered with a
\* second article that conforms, after a first one that holds an object
\* that does not conform (attempt 0), or no JSON (attempt 1)
C23_Witness ==
    /\ op = "json" /\ pc = "Exhausted" /\ ~strict /\ jsonschema_installed
    /\ response_schema = PersonSchema
    /\ calls = 2 /\ Len(log) = 2
    /\ log[1].extracted # None /\ ~Conforms(log[1].extracted)
    /\ log[2].extracted = None
    /\ \A k \in 1..2 : LaterConforms(log[k])
    /\ outcome = [kind |-> "returned", value |-> None]

====
